---- MODULE Spec2Model ----
(***************************************************************************)
(* MiBand-HeartRate (src/src/main.rs): a BLE scan loop (the ingestion      *)
(* task, main) feeds handle_device, whose callback locks the shared        *)
(* HeartRateMonitor and calls update(); one HTTP thread                    *)
(* (start_http_server) answers /data with a HeartRateUpdate built under    *)
(* the same Mutex, and every other URL with the static page.               *)
(*                                                                         *)
(* Time is counted in clock ticks (TicksPerSec ticks to a second);         *)
(* Duration::as_secs truncates to whole seconds.                           *)
(*                                                                         *)
(* Three specifications share the actions and differ in the scan stream:   *)
(*   Spec       every kind of record, a few updates, a short clock;        *)
(*   SpecHist   streams long enough to overflow the history, within one    *)
(*              clock tick;                                                *)
(*   SpecClock  one reading, then the clock runs past the staleness        *)
(*              threshold.                                                 *)
(***************************************************************************)
EXTENDS Integers, Sequences, FiniteSets, TLC

VARIABLES
    monitor,      \* the HeartRateMonitor inside the Mutex
    lock,         \* who holds the Mutex: "free", "ingest", "server"
    poisoned,     \* the Mutex's poison flag
    now,          \* the monotonic clock (Instant::now()), in ticks
    stream,       \* which scan stream the adapter delivers
    pc_ingest,    \* position of the ingestion task (main's scan loop)
    rec,          \* discovered_device: the record handed to handle_device
    cb,           \* the arguments handle_device passed to the callback
    pc_server,    \* position of the HTTP thread (start_http_server's loop)
    frame,        \* locals of create_heart_rate_update
    update,       \* the HeartRateUpdate built for the current /data request
    delivered,    \* the last response body a client received from /data
    calls,        \* history variable: the rates passed to update(), in order
    committed,    \* history variable: the monitor after the last completed update()
    seen,         \* history variable: Len(calls) when `delivered` was sent
    outcome,      \* history variable: what handle_device last did
    read_at,      \* history variable: the clock reading of line 120
    stored_at,    \* history variable: the clock when update() last stored a value
    sent_at,      \* history variable: read_at of the snapshot in `delivered`
    late          \* history variable: the record in `cb` was accepted after
                  \* the HTTP thread had panicked

vars == <<monitor, lock, poisoned, now, stream, pc_ingest, rec, cb,
          pc_server, frame, update, delivered, calls, committed, seen,
          outcome, read_at, stored_at, sent_at, late>>

---------------------------------------------------------------------------
(* Bounds of the model *)

TicksPerSec == 2
MaxTime == 2           \* ticks of the clock under Spec
MaxUpdates == 2        \* update() calls under Spec
MaxHistUpdates == 62   \* update() calls under SpecHist
MaxClockSecs == 10     \* whole seconds of the clock under SpecClock

(* Program constants *)

HistoryCap == 60
RecentSecs == 10
TargetCompany == 343
TargetName == "Mi Smart Band 4"
\* The source's Chinese string literals are written here in ASCII: the
\* name given to a nameless device (line 105), the placeholder name of a
\* new monitor (line 36) and the two status texts (lines 122, 124).
UnknownName == "(unknown)"
WaitingName == "waiting for connection..."
I16Min == -32768

StatusLive == "updating live"
StatusLost == "signal lost"
ColorLive == "#27ae60"
ColorLost == "#e74c3c"

\* Option<T>: None is the empty sequence, Some(x) the sequence <<x>>.
None == <<>>
Some(x) == <<x>>
IsSome(o) == o # <<>>
Unwrap(o) == o[1]
UnwrapOr(o, d) == IF IsSome(o) THEN o[1] ELSE d

---------------------------------------------------------------------------
(* Inputs *)

Rates == {72, 255}
Companies == {TargetCompany, 76}
Names == {Some(TargetName), Some("Other Device"), None}
Rssis == {Some(-60), None}

\* The scan streams: "free" carries every kind of record; the patterned
\* streams "count" (readings 1, 2, 3, ...) and "const" (always 72) run
\* long enough to overflow the history; on "once" the band is heard one
\* time (reading 72) and then falls silent, while the clock runs past the
\* staleness threshold.
HistStreams == {"count", "const"}

\* The k-th acceptable reading of a patterned stream.
StreamByte(s, k) ==
    IF s = "count" THEN k % 256 ELSE 72

\* The reading bytes the next record of the stream may carry.
NextBytes ==
    IF stream = "free" THEN Rates
    ELSE IF stream = "once" THEN {72}
    ELSE {StreamByte(stream, Len(calls) + 1)}

Payloads(bytes) ==
    {<<>>, <<2, 1, 0>>}
      \cup {<<2, 1, 0, b>> : b \in bytes}
      \cup {<<2, 1, 0, b, 9>> : b \in bytes}

\* Option<ManufacturerData>
ManufacturerDatas(bytes) ==
    {None} \cup
    {Some(d) : d \in [company_id : Companies,
                      data : Payloads(bytes)]}

\* AdvertisingDevice: adv_data.manufacturer_data, device.name(), rssi.
AllRecords(bytes) ==
    [manufacturer_data : ManufacturerDatas(bytes), name : Names, rssi : Rssis]

\* The other streams vary the reading and the name, not the rest.
Records ==
    IF stream = "free"
    THEN AllRecords(NextBytes)
    ELSE {r \in AllRecords(NextBytes) :
            /\ r.rssi = Some(-60)
            /\ IsSome(r.name)
            /\ IsSome(r.manufacturer_data)
            /\ Unwrap(r.manufacturer_data).company_id = TargetCompany
            /\ Len(Unwrap(r.manufacturer_data).data) \in {3, 4}}

\* How many acceptable records the stream carries.
UpdateLimit ==
    IF stream = "free" THEN MaxUpdates
    ELSE IF stream = "once" THEN 1
    ELSE MaxHistUpdates

\* How far the clock runs.
TimeLimit ==
    IF stream = "once" THEN MaxClockSecs * TicksPerSec + 1 ELSE MaxTime

---------------------------------------------------------------------------
(* HeartRateMonitor *)

\* HeartRateMonitor::new
NewMonitor(t) ==
    [current_rate |-> 0, device_name |-> WaitingName, rssi |-> I16Min,
     last_update |-> t, history |-> <<>>]

\* Duration::as_secs: whole seconds, truncated.
as_secs(d) == d \div TicksPerSec

\* Faulty variant of elapsed: counted from the start of the process.
elapsed_since_start(m, t) == t

\* Instant::elapsed at clock reading t.
elapsed(m, t) == t - m.last_update

\* Faulty variant of is_recent: the threshold second still counts as recent.
is_recent_inclusive(m, t) == as_secs(elapsed(m, t)) <= RecentSecs

\* HeartRateMonitor::is_recent at clock reading t.
is_recent(m, t) == as_secs(elapsed(m, t)) < RecentSecs

\* Faulty variant of AssignFields: last_update is not refreshed.
AssignFieldsKeepTime(m, rate, name, rssi, t) ==
    [m EXCEPT !.current_rate = rate, !.device_name = name, !.rssi = rssi]

\* update(), lines 44-47: the four field assignments.
AssignFields(m, rate, name, rssi, t) ==
    [m EXCEPT !.current_rate = rate, !.device_name = name,
              !.rssi = rssi, !.last_update = t]

\* Faulty variant of PushBack: the reading goes to the front.
PushFront(m, rate) == [m EXCEPT !.history = <<rate>> \o @]

\* update(), line 50: history.push_back(rate).
PushBack(m, rate) == [m EXCEPT !.history = Append(@, rate)]

\* Faulty variants of TrimHistory: pop_front already at length 60; never pop.
TrimHistoryOffByOne(m) ==
    IF Len(m.history) >= HistoryCap
    THEN [m EXCEPT !.history = Tail(@)]
    ELSE m

TrimHistoryNever(m) == m

\* update(), lines 51-53: pop_front when the length exceeds 60.
TrimHistory(m) ==
    IF Len(m.history) > HistoryCap
    THEN [m EXCEPT !.history = Tail(@)]
    ELSE m

---------------------------------------------------------------------------
(* handle_device *)

\* if let Some(manufacturer_data) = ... (line 98)
HasManufacturerData(r) == IsSome(r.manufacturer_data)

\* manufacturer_data.company_id != 0x0157 returns (lines 99-101)
CompanyMatches(r) == Unwrap(r.manufacturer_data).company_id = TargetCompany

\* device.name().unwrap_or("(unknown)") (lines 102-105)
NameOf(r) == UnwrapOr(r.name, UnknownName)

\* Faulty variant of NameMatches: the name is not checked.
NameNotChecked(r) == TRUE

\* name != "Mi Smart Band 4" returns (lines 106-108)
NameMatches(r) == NameOf(r) = TargetName

\* rssi.unwrap_or_default() (line 109)
RssiOf(r) == UnwrapOr(r.rssi, 0)

\* Whether manufacturer_data.data[3] is in bounds (else the index panics).
IndexInBounds(r) == Len(Unwrap(r.manufacturer_data).data) > 3

\* manufacturer_data.data[3] (line 110; Rust indexes from 0).
ReadingOf(r) == Unwrap(r.manufacturer_data).data[3 + 1]

\* Faulty variant of HandleOutcome: a reading of 0xFF is skipped as "no
\* reading".
HandleOutcomeSkippingSentinel(r) ==
    IF ~HasManufacturerData(r) THEN "return"
    ELSE IF ~CompanyMatches(r) THEN "return"
    ELSE IF ~NameMatches(r) THEN "return"
    ELSE IF ~IndexInBounds(r) THEN "panic"
    ELSE IF ReadingOf(r) = 255 THEN "return"
    ELSE "callback"

\* What handle_device does with record r: "return" (filtered out),
\* "panic" (data[3] out of bounds) or "callback" (lines 98-115).
HandleOutcome(r) ==
    IF ~HasManufacturerData(r) THEN "return"
    ELSE IF ~CompanyMatches(r) THEN "return"
    ELSE IF ~NameMatches(r) THEN "return"
    ELSE IF ~IndexInBounds(r) THEN "panic"
    ELSE "callback"

\* The arguments of callback(heart_rate, &name, rssi) (line 114).
CallbackArgs(r) ==
    [rate |-> ReadingOf(r), name |-> NameOf(r), rssi |-> RssiOf(r)]

---------------------------------------------------------------------------
(* The Mutex *)

\* Faulty variant of LockAvailable: lock() never waits for the holder.
LockNeverBlocks == TRUE

\* Mutex::lock blocks until no thread holds the lock.
LockAvailable == lock = "free"

\* Faulty variant of LockResult: a poisoned mutex is handed out all the
\* same.
LockResultIgnoringPoison == "Ok"

\* Mutex::lock returns Err on a poisoned mutex, and unwrap() then panics.
LockResult == IF poisoned THEN "Err" ELSE "Ok"

\* A panic of main ends the process, and the HTTP thread with it.
Alive == pc_ingest # "panicked"

---------------------------------------------------------------------------
(* create_heart_rate_update *)

StatusOf(recent) == IF recent THEN StatusLive ELSE StatusLost

ColorOf(recent) == IF recent THEN ColorLive ELSE ColorLost

\* The HeartRateUpdate struct literal (lines 133-141).
BuildUpdate(m, f, color) ==
    [heart_rate |-> m.current_rate, device_name |-> m.device_name,
     rssi |-> m.rssi, elapsed_secs |-> f.elapsed_secs, status |-> f.status,
     status_color |-> color, history |-> m.history]

---------------------------------------------------------------------------
(* Initial states *)

InitCommon ==
    /\ monitor = NewMonitor(0)
    /\ lock = "free"
    /\ poisoned = FALSE
    /\ now = 0
    /\ pc_ingest = "scan"
    /\ rec = None
    /\ cb = None
    /\ pc_server = "idle"
    /\ frame = None
    /\ update = None
    /\ delivered = None
    /\ calls = <<>>
    /\ committed = NewMonitor(0)
    /\ seen = 0
    /\ outcome = "none"
    /\ read_at = 0
    /\ stored_at = 0
    /\ sent_at = 0
    /\ late = FALSE

Init == InitCommon /\ stream = "free"

InitHist == InitCommon /\ stream \in HistStreams

InitClock == InitCommon /\ stream = "once"

---------------------------------------------------------------------------
(* The ingestion task: main's scan loop (lines 82-89) *)

\* scan.next().await delivers the next record.
ScanNext ==
    /\ pc_ingest = "scan"
    /\ Len(calls) < UpdateLimit
    /\ \E r \in Records : rec' = Some(r)
    /\ pc_ingest' = "handle"
    /\ UNCHANGED <<monitor, lock, poisoned, now, stream, cb, pc_server, frame,
                   update, delivered, calls, committed, seen,
                   outcome, read_at, stored_at, sent_at, late>>

\* handle_device returns without calling the callback.
HandleReturn ==
    /\ pc_ingest = "handle"
    /\ HandleOutcome(Unwrap(rec)) = "return"
    /\ rec' = None
    /\ pc_ingest' = "scan"
    /\ outcome' = "return"
    /\ UNCHANGED <<monitor, lock, poisoned, now, stream, cb, pc_server, frame,
                   update, delivered, calls, committed, seen,
                   read_at, stored_at, sent_at, late>>

\* handle_device panics at data[3]: main unwinds and the process exits.
HandlePanic ==
    /\ pc_ingest = "handle"
    /\ HandleOutcome(Unwrap(rec)) = "panic"
    /\ pc_ingest' = "panicked"
    /\ outcome' = "panic"
    /\ UNCHANGED <<monitor, lock, poisoned, now, stream, rec, cb, pc_server,
                   frame, update, delivered, calls, committed, seen,
                   read_at, stored_at, sent_at, late>>

\* handle_device prints the reading and calls the callback, which starts
\* with hr_monitor.lock().
HandleCallback ==
    /\ pc_ingest = "handle"
    /\ HandleOutcome(Unwrap(rec)) = "callback"
    /\ cb' = Some(CallbackArgs(Unwrap(rec)))
    /\ pc_ingest' = "lock"
    /\ outcome' = "callback"
    /\ late' = (pc_server = "panicked")
    /\ UNCHANGED <<monitor, lock, poisoned, now, stream, rec, pc_server, frame,
                   update, delivered, calls, committed, seen,
                   read_at, stored_at, sent_at>>

\* hr_monitor.lock().unwrap() (line 86).
IngestLock ==
    /\ pc_ingest = "lock"
    /\ LockAvailable
    /\ IF LockResult = "Ok"
       THEN lock' = "ingest" /\ pc_ingest' = "upd_fields"
       ELSE lock' = lock /\ pc_ingest' = "panicked"
    /\ UNCHANGED <<monitor, poisoned, now, stream, rec, cb, pc_server, frame,
                   update, delivered, calls, committed, seen,
                   outcome, read_at, stored_at, sent_at, late>>

\* monitor.update(rate, name, rssi), lines 44-47.
UpdateFields ==
    /\ pc_ingest = "upd_fields"
    /\ monitor' = AssignFields(monitor, Unwrap(cb).rate, Unwrap(cb).name,
                               Unwrap(cb).rssi, now)
    /\ calls' = Append(calls, Unwrap(cb).rate)
    /\ pc_ingest' = "upd_push"
    /\ stored_at' = now
    /\ UNCHANGED <<lock, poisoned, now, stream, rec, cb, pc_server, frame,
                   update, delivered, committed, seen,
                   outcome, read_at, sent_at, late>>

\* line 50.
UpdatePush ==
    /\ pc_ingest = "upd_push"
    /\ monitor' = PushBack(monitor, Unwrap(cb).rate)
    /\ pc_ingest' = "upd_trim"
    /\ UNCHANGED <<lock, poisoned, now, stream, rec, cb, pc_server, frame,
                   update, delivered, calls, committed, seen,
                   outcome, read_at, stored_at, sent_at, late>>

\* lines 51-53, then the closure returns and drops the guard.
UpdateTrim ==
    /\ pc_ingest = "upd_trim"
    /\ monitor' = TrimHistory(monitor)
    /\ committed' = monitor'
    /\ lock' = "free"
    /\ cb' = None
    /\ rec' = None
    /\ pc_ingest' = "scan"
    /\ late' = FALSE
    /\ UNCHANGED <<poisoned, now, stream, pc_server, frame, update, delivered,
                   calls, seen,
                   outcome, read_at, stored_at, sent_at>>

---------------------------------------------------------------------------
(* The HTTP thread: start_http_server's request loop (lines 157-292) *)

\* server.incoming_requests() yields a request for /data.
RequestData ==
    /\ Alive
    /\ pc_server = "idle"
    /\ pc_server' = "lock"
    /\ UNCHANGED <<monitor, lock, poisoned, now, stream, pc_ingest, rec, cb,
                   frame, update, delivered, calls, committed, seen,
                   outcome, read_at, stored_at, sent_at, late>>

\* ... or for any other URL: the main page.
RequestPage ==
    /\ Alive
    /\ pc_server = "idle"
    /\ pc_server' = "page"
    /\ UNCHANGED <<monitor, lock, poisoned, now, stream, pc_ingest, rec, cb,
                   frame, update, delivered, calls, committed, seen,
                   outcome, read_at, stored_at, sent_at, late>>

\* heart_rate.lock().unwrap() (line 160).
ServerLock ==
    /\ Alive
    /\ pc_server = "lock"
    /\ LockAvailable
    /\ IF LockResult = "Ok"
       THEN lock' = "server" /\ pc_server' = "elapsed"
       ELSE lock' = lock /\ pc_server' = "panicked"
    /\ UNCHANGED <<monitor, poisoned, now, stream, pc_ingest, rec, cb, frame,
                   update, delivered, calls, committed, seen,
                   outcome, read_at, stored_at, sent_at, late>>

\* Faulty variant of ReadElapsed: reading the monitor refreshes its
\* last_update.
ReadElapsedTouching ==
    /\ Alive
    /\ pc_server = "elapsed"
    /\ frame' = Some([elapsed_secs |-> as_secs(elapsed(monitor, now)),
                      status |-> ""])
    /\ monitor' = [monitor EXCEPT !.last_update = now]
    /\ read_at' = now
    /\ pc_server' = "status"
    /\ UNCHANGED <<lock, poisoned, now, stream, pc_ingest, rec, cb,
                   update, delivered, calls, committed, seen,
                   outcome, stored_at, sent_at, late>>

\* line 120: the first clock read.
ReadElapsed ==
    /\ Alive
    /\ pc_server = "elapsed"
    /\ frame' = Some([elapsed_secs |-> as_secs(elapsed(monitor, now)),
                      status |-> ""])
    /\ pc_server' = "status"
    /\ read_at' = now
    /\ UNCHANGED <<monitor, lock, poisoned, now, stream, pc_ingest, rec, cb,
                   update, delivered, calls, committed, seen,
                   outcome, stored_at, sent_at, late>>

\* lines 121-125: the second clock read.
ReadStatus ==
    /\ Alive
    /\ pc_server = "status"
    /\ frame' = Some([Unwrap(frame) EXCEPT
                        !.status = StatusOf(is_recent(monitor, now))])
    /\ pc_server' = "color"
    /\ UNCHANGED <<monitor, lock, poisoned, now, stream, pc_ingest, rec, cb,
                   update, delivered, calls, committed, seen,
                   outcome, read_at, stored_at, sent_at, late>>

\* lines 127-141: the third clock read and the struct; then the JSON body
\* (line 162) and the Response (lines 164-165), all in memory.
BuildResponse ==
    /\ Alive
    /\ pc_server = "color"
    /\ update' = Some(BuildUpdate(monitor, Unwrap(frame),
                                  ColorOf(is_recent(monitor, now))))
    /\ frame' = None
    /\ pc_server' = "respond"
    /\ UNCHANGED <<monitor, lock, poisoned, now, stream, pc_ingest, rec, cb,
                   delivered, calls, committed, seen,
                   outcome, read_at, stored_at, sent_at, late>>

\* request.respond(response) succeeds (line 167); `continue` drops the
\* guard (line 168).
RespondOk ==
    /\ Alive
    /\ pc_server = "respond"
    /\ delivered' = update
    /\ seen' = Len(calls)
    /\ update' = None
    /\ lock' = "free"
    /\ pc_server' = "idle"
    /\ read_at' = 0
    /\ sent_at' = read_at
    /\ UNCHANGED <<monitor, poisoned, now, stream, pc_ingest, rec, cb, frame,
                   calls, committed,
                   outcome, stored_at, late>>

\* request.respond(response) fails and expect() panics: the guard is
\* dropped while the thread unwinds, which poisons the Mutex.
RespondFail ==
    /\ Alive
    /\ pc_server = "respond"
    /\ update' = None
    /\ poisoned' = TRUE
    /\ lock' = "free"
    /\ pc_server' = "panicked"
    /\ read_at' = 0
    /\ UNCHANGED <<monitor, now, stream, pc_ingest, rec, cb, frame, delivered,
                   calls, committed, seen,
                   outcome, stored_at, sent_at, late>>

\* The main page is sent (lines 288-291).
PageOk ==
    /\ Alive
    /\ pc_server = "page"
    /\ pc_server' = "idle"
    /\ UNCHANGED <<monitor, lock, poisoned, now, stream, pc_ingest, rec, cb,
                   frame, update, delivered, calls, committed, seen,
                   outcome, read_at, stored_at, sent_at, late>>

\* The main page cannot be sent: expect() panics, no guard is held.
PageFail ==
    /\ Alive
    /\ pc_server = "page"
    /\ pc_server' = "panicked"
    /\ UNCHANGED <<monitor, lock, poisoned, now, stream, pc_ingest, rec, cb,
                   frame, update, delivered, calls, committed, seen,
                   outcome, read_at, stored_at, sent_at, late>>

---------------------------------------------------------------------------
(* The clock *)

Tick ==
    /\ Alive
    /\ now < TimeLimit
    /\ now' = now + 1
    /\ UNCHANGED <<monitor, lock, poisoned, stream, pc_ingest, rec, cb,
                   pc_server, frame, update, delivered, calls, committed, seen,
                   outcome, read_at, stored_at, sent_at, late>>

---------------------------------------------------------------------------
(* Specifications *)

Ingest ==
    \/ ScanNext
    \/ HandleReturn
    \/ HandlePanic
    \/ HandleCallback
    \/ IngestLock
    \/ UpdateFields
    \/ UpdatePush
    \/ UpdateTrim

Server ==
    \/ RequestData
    \/ RequestPage
    \/ ServerLock
    \/ ReadElapsed
    \/ ReadStatus
    \/ BuildResponse
    \/ RespondOk
    \/ RespondFail
    \/ PageOk
    \/ PageFail

Next == Ingest \/ Server \/ Tick

\* Within one clock tick: the scan stream at full length.
NextHist == Ingest \/ Server

Spec == Init /\ [][Next]_vars

SpecHist == InitHist /\ [][NextHist]_vars

SpecClock == InitClock /\ [][Next]_vars

\* Fair scheduling: both tasks are threads the operating system keeps
\* running, so a step either task can take is eventually taken, and a
\* task that finds the lock free again and again eventually takes it.
\* Nothing obliges a record or a request to arrive, nor the clock to move.
IngestRuns ==
    \/ HandleReturn
    \/ HandlePanic
    \/ HandleCallback
    \/ IngestLock
    \/ UpdateFields
    \/ UpdatePush
    \/ UpdateTrim

ServerRuns ==
    \/ ServerLock
    \/ ReadElapsed
    \/ ReadStatus
    \/ BuildResponse
    \/ RespondOk
    \/ RespondFail
    \/ PageOk
    \/ PageFail

SpecFair ==
    /\ Spec
    /\ WF_vars(IngestRuns) /\ WF_vars(ServerRuns)
    /\ SF_vars(IngestLock) /\ SF_vars(ServerLock)

---------------------------------------------------------------------------
(* Vocabulary of the properties *)

\* The last n entries of s, in order.
LastN(s, n) == IF Len(s) <= n THEN s ELSE SubSeq(s, Len(s) - n + 1, Len(s))

Min(a, b) == IF a <= b THEN a ELSE b

\* The ingestion task is inside update().
Updating == pc_ingest \in {"upd_fields", "upd_push", "upd_trim"}

\* The HTTP thread is inside create_heart_rate_update or holds its result.
Reading == pc_server \in {"elapsed", "status", "color", "respond"}

\* This step is handle_device running to its end on the record `rec`.
HandleStep == pc_ingest = "handle" /\ pc_ingest' # "handle"

\* This step is update() returning.
CommitStep == pc_ingest = "upd_trim" /\ pc_ingest' = "scan"

\* This step is the HTTP thread sending the body of a /data response.
RespondStep == pc_server = "respond" /\ pc_server' = "idle"

---------------------------------------------------------------------------
(* C1: after N accepted updates v1..vN on a fresh store, history is       *)
(* [v1..vN] when N <= 60 and the last 60 values in arrival order when     *)
(* N > 60; after the values 1..61 it is [2..61].                          *)

C1_HistoryIsLastSixty ==
    ~Updating =>
        /\ monitor.history = LastN(calls, HistoryCap)
        /\ Len(calls) <= HistoryCap => monitor.history = calls
        /\ Len(calls) > HistoryCap => Len(monitor.history) = HistoryCap
        /\ calls = [i \in 1..61 |-> i] =>
              monitor.history = [i \in 1..60 |-> i + 1]

C1_Witness ==
    /\ ~Updating
    /\ calls = [i \in 1..61 |-> i]
    /\ monitor.history = [i \in 1..60 |-> i + 1]

---------------------------------------------------------------------------
(* C2: whenever the lock is free, and in every HeartRateUpdate built for  *)
(* or delivered to a reader, the history holds at most 60 entries.        *)

C2_HistoryBounded ==
    /\ lock = "free" => Len(monitor.history) <= HistoryCap
    /\ IsSome(update) => Len(Unwrap(update).history) <= HistoryCap
    /\ IsSome(delivered) => Len(Unwrap(delivered).history) <= HistoryCap

C2_Witness ==
    /\ lock = "free"
    /\ Len(calls) > HistoryCap
    /\ Len(monitor.history) = HistoryCap
    /\ IsSome(delivered)
    /\ Len(Unwrap(delivered).history) = HistoryCap
    /\ seen > HistoryCap

---------------------------------------------------------------------------
(* C3: update() is atomic for readers: the HTTP thread never reads while  *)
(* update() is under way, and every snapshot built for /data equals the   *)
(* whole monitor as the last completed update() left it (value, name,     *)
(* signal strength, history, and elapsed time counted from that update's  *)
(* last_update).                                                          *)

C3_SnapshotNotTorn ==
    /\ ~(Reading /\ Updating)
    /\ IsSome(frame) =>
          Unwrap(frame).elapsed_secs
            = as_secs(read_at - committed.last_update)
    /\ IsSome(update) =>
          LET u == Unwrap(update) IN
            /\ u.heart_rate = committed.current_rate
            /\ u.device_name = committed.device_name
            /\ u.rssi = committed.rssi
            /\ u.history = committed.history
            /\ u.elapsed_secs = as_secs(read_at - committed.last_update)

C3_Witness ==
    /\ IsSome(update)
    /\ pc_ingest = "lock"
    /\ Len(calls) = 1
    /\ committed.last_update > 0
    /\ Unwrap(update).history = calls
    /\ Unwrap(update).heart_rate = calls[1]
    /\ Unwrap(update).device_name = TargetName

---------------------------------------------------------------------------
(* C4: for a record with no manufacturer data, or a companyId other than  *)
(* 0x0157, or a name that is absent or not "Mi Smart Band 4",             *)
(* handle_device does not call the callback (no update follows) and       *)
(* leaves every field of the store as it was.                             *)

C4_Case(r) ==
    \/ r.manufacturer_data = None
    \/ Unwrap(r.manufacturer_data).company_id # 343
    \/ r.name = None
    \/ r.name # Some("Mi Smart Band 4")

C4_FilteredRecordNoEffect ==
    [][(HandleStep /\ C4_Case(Unwrap(rec))) =>
          /\ monitor' = monitor
          /\ cb' = None
          /\ calls' = calls
          /\ pc_ingest' = "scan"
          /\ outcome' = "return"]_vars

C4_Witness ==
    /\ outcome = "return"
    /\ pc_ingest = "scan"
    /\ Len(calls) = 1
    /\ monitor = committed
    /\ monitor.history = calls

---------------------------------------------------------------------------
(* C5: a record of the target device (companyId 0x0157, name              *)
(* "Mi Smart Band 4") whose payload has length <= 3 is rejected without   *)
(* a fatal error and without touching the store: the scan loop goes on    *)
(* to the next record.                                                    *)

C5_Case(r) ==
    /\ r.manufacturer_data # None
    /\ Unwrap(r.manufacturer_data).company_id = 343
    /\ r.name = Some("Mi Smart Band 4")
    /\ Len(Unwrap(r.manufacturer_data).data) <= 3

C5_ShortPayloadRejected ==
    [][(HandleStep /\ C5_Case(Unwrap(rec))) =>
          /\ monitor' = monitor
          /\ cb' = None
          /\ pc_ingest' = "scan"]_vars

---------------------------------------------------------------------------
(* C6: a record with manufacturer data, companyId 0x0157, the name        *)
(* "Mi Smart Band 4" and a payload longer than 3 is accepted and causes   *)
(* exactly one update with value payload[3], the record's name and its    *)
(* RSSI (0 when absent); afterwards the current value is payload[3].      *)

C6_Case(r) ==
    /\ r.manufacturer_data # None
    /\ Unwrap(r.manufacturer_data).company_id = 343
    /\ r.name = Some("Mi Smart Band 4")
    /\ Len(Unwrap(r.manufacturer_data).data) > 3

C6_Args(r) ==
    [rate |-> Unwrap(r.manufacturer_data).data[4],
     name |-> Unwrap(r.name),
     rssi |-> IF r.rssi = None THEN 0 ELSE Unwrap(r.rssi)]

C6_AcceptedRecordUpdates ==
    [][/\ (HandleStep /\ C6_Case(Unwrap(rec))) =>
             cb' = Some(C6_Args(Unwrap(rec))) /\ pc_ingest' = "lock"
       /\ (pc_ingest = "lock" /\ pc_ingest' # "lock") =>
             pc_ingest' = "upd_fields"
       /\ (pc_ingest = "upd_fields" /\ pc_ingest' # "upd_fields") =>
             calls' = Append(calls, C6_Args(Unwrap(rec)).rate)
       /\ CommitStep =>
             /\ monitor'.current_rate = C6_Args(Unwrap(rec)).rate
             /\ monitor'.device_name = C6_Args(Unwrap(rec)).name
             /\ monitor'.rssi = C6_Args(Unwrap(rec)).rssi]_vars

---------------------------------------------------------------------------
(* C7: the freshness verdict is Fresh exactly when less than 10 seconds   *)
(* have passed since the last update, else Stale; 9 s is Fresh, 10 s is   *)
(* Stale.                                                                 *)

C7_FreshIffUnderTenSeconds ==
    [][(pc_server = "status" /\ pc_server' = "color") =>
          LET ticks == now - monitor.last_update
              verdict == Unwrap(frame').status
          IN  /\ verdict \in {StatusLive, StatusLost}
              /\ verdict = StatusLive <=> ticks < 10 * TicksPerSec
              /\ ticks = 9 * TicksPerSec => verdict = StatusLive
              /\ ticks = 10 * TicksPerSec => verdict = StatusLost]_vars

C7_Witness ==
    /\ pc_server = "color"
    /\ Unwrap(frame).status = StatusLost
    /\ now - monitor.last_update = 10 * TicksPerSec
    /\ Len(calls) = 1

---------------------------------------------------------------------------
(* C8: waitForChange(g) returns only with generation > g, and waiters     *)
(* pending when an update commits receive that update's snapshot, never   *)
(* a stale or partially applied one.  The generation is the number of     *)
(* completed update() calls; g is the generation of the response the      *)
(* client received before (`seen`).                                       *)

\* The claim as made: a /data response is sent only after a new update.
C8_ReturnsOnlyOnChange ==
    [][(RespondStep /\ IsSome(delivered)) => Len(calls) > seen]_vars

\* As amended: GET /data never waits for a change.  It answers with a
\* generation >= g (equal when nothing was accepted in between), and the
\* snapshot it sends is that of the latest completed update: no update is
\* under way, and value and history are those of all the updates so far.
C8_ReturnsLatestCommitted ==
    [][RespondStep =>
          /\ ~Updating
          /\ seen' = Len(calls)
          /\ seen' >= seen
          /\ delivered' = update
          /\ Unwrap(delivered').history = LastN(calls, HistoryCap)
          /\ Unwrap(delivered').heart_rate =
                (IF calls = <<>> THEN 0 ELSE calls[Len(calls)])]_vars

C8_Witness ==
    /\ pc_server = "idle"
    /\ IsSome(delivered)
    /\ seen = 2
    /\ Len(calls) = 2
    /\ Unwrap(delivered).history = calls
    /\ Unwrap(delivered).heart_rate = calls[2]

---------------------------------------------------------------------------
(* C9: the store carries a generation counter that goes up by one on      *)
(* every accepted update() and is left alone by rejected records and by   *)
(* reads.  The monitor has five fields and no counter; the numbers it     *)
(* carries are the current rate, the RSSI, last_update and the length of  *)
(* the history.                                                           *)

\* The claim as made, for whichever number of the monitor is the counter.
C9_GenerationCounter ==
    [][CommitStep =>
          \/ monitor'.current_rate = committed.current_rate + 1
          \/ monitor'.rssi = committed.rssi + 1
          \/ monitor'.last_update = committed.last_update + 1
          \/ Len(monitor'.history) = Len(committed.history) + 1]_vars

\* As amended: there is no generation counter; what counts the accepted
\* updates is the history length, which goes up by one per update() only
\* until it is 60 and stays 60 from then on; rejected records and reads
\* leave the whole monitor unchanged.
C9_HistoryLengthCounts ==
    [][/\ CommitStep =>
             Len(monitor'.history)
               = Min(Len(committed.history) + 1, HistoryCap)
       /\ (HandleStep /\ pc_ingest' = "scan") => monitor' = monitor
       /\ pc_server' # pc_server => monitor' = monitor]_vars

C9_Witness ==
    /\ stream = "const"
    /\ lock = "free"
    /\ Len(calls) = HistoryCap + 1
    /\ Len(monitor.history) = HistoryCap
    /\ outcome = "return"
    /\ seen = HistoryCap + 1

---------------------------------------------------------------------------
(* C10: while the store lock is held its holder does in-memory work       *)
(* only: neither task writes a response, prints or waits on the network   *)
(* between taking and releasing the lock.                                 *)

\* The HTTP thread is in request.respond (lines 167, 291).
ServerIO == pc_server \in {"respond", "page"}

\* The ingestion task awaits the scan stream or is in handle_device,
\* which prints (lines 82, 111).
IngestIO == pc_ingest \in {"scan", "handle"}

C10_NoIOUnderLock ==
    /\ lock = "server" => ~ServerIO
    /\ lock = "ingest" => ~IngestIO

---------------------------------------------------------------------------
(* C11: under fair scheduling every /data request that has started        *)
(* obtains the lock and yields a snapshot, and the update of every        *)
(* accepted record commits: no task waits on the lock forever.            *)

C11_NoWaitForever ==
    /\ (pc_server = "lock") ~> IsSome(update)
    /\ (pc_ingest = "lock") ~> (pc_ingest = "scan")

---------------------------------------------------------------------------
(* C12: last_update never goes back over the accepted updates of the      *)
(* single writer, and no snapshot pairs a value with a last_update older  *)
(* than the update that stored that value: the elapsed time it reports is *)
(* counted from that update's clock reading, never from an earlier one.   *)

C12_LastUpdateMonotone ==
    [][/\ monitor'.last_update >= monitor.last_update
       /\ monitor'.last_update >= stored_at'
       /\ IsSome(update') =>
             /\ Unwrap(update').elapsed_secs <= as_secs(read_at' - stored_at')
             /\ Unwrap(update').heart_rate = committed'.current_rate
             /\ committed'.last_update >= stored_at']_vars

C12_Witness ==
    /\ IsSome(update)
    /\ Len(calls) = 2
    /\ stored_at = 2
    /\ monitor.last_update = 2
    /\ Unwrap(update).heart_rate = calls[2]
    /\ Unwrap(update).elapsed_secs = 0

---------------------------------------------------------------------------
(* C13: the elapsed_secs reported by snapshots strictly increases between *)
(* updates (it grows with every tick of the clock while no update is      *)
(* accepted) and is 0 in a snapshot taken immediately after an accepted   *)
(* update.                                                                *)

\* This step builds a snapshot that follows `delivered` with no update in
\* between and a later clock reading.
C13_NextSnapshot ==
    /\ pc_server = "color" /\ pc_server' = "respond"
    /\ IsSome(delivered)
    /\ seen = Len(calls)
    /\ read_at > sent_at

\* This step builds a snapshot at the clock reading of the last update.
C13_RightAfterUpdate ==
    /\ pc_server = "color" /\ pc_server' = "respond"
    /\ Len(calls) > 0
    /\ read_at = stored_at

\* The claim as made.
C13_ElapsedStrictlyIncreases ==
    [][/\ C13_NextSnapshot =>
             Unwrap(update').elapsed_secs > Unwrap(delivered).elapsed_secs
       /\ C13_RightAfterUpdate => Unwrap(update').elapsed_secs = 0]_vars

\* As amended: elapsed_secs counts whole seconds, so between updates it
\* never decreases from one snapshot to the next and increases once a
\* full second lies between their clock readings (snapshots taken within
\* the same second report the same value); it is 0 in a snapshot taken
\* immediately after an accepted update.
C13_ElapsedWholeSeconds ==
    [][/\ C13_NextSnapshot =>
             /\ Unwrap(update').elapsed_secs
                   >= Unwrap(delivered).elapsed_secs
             /\ read_at - sent_at >= TicksPerSec =>
                   Unwrap(update').elapsed_secs
                     > Unwrap(delivered).elapsed_secs
       /\ C13_RightAfterUpdate => Unwrap(update').elapsed_secs = 0]_vars

C13_Witness ==
    /\ pc_server = "respond"
    /\ IsSome(delivered)
    /\ Len(calls) = 1
    /\ seen = 1
    /\ stored_at > 0
    /\ sent_at = stored_at
    /\ Unwrap(delivered).elapsed_secs = 0
    /\ read_at - sent_at >= 3 * TicksPerSec
    /\ Unwrap(update).elapsed_secs = 3

---------------------------------------------------------------------------
(* C14: the ingestion path is the only mutator of the store: serving a    *)
(* request, /data or the main page, leaves every field of the store as    *)
(* it was; and the snapshot handed to a reader is a copy, which later     *)
(* updates never alter.                                                   *)

C14_ReadersDoNotMutate ==
    [][/\ pc_server' # pc_server =>
             monitor' = monitor /\ committed' = committed /\ calls' = calls
       /\ monitor' # monitor => Updating
       /\ pc_ingest' # pc_ingest =>
             delivered' = delivered /\ update' = update /\ frame' = frame]_vars

C14_Witness ==
    /\ ~Updating
    /\ IsSome(delivered)
    /\ seen = 1
    /\ Len(calls) = 2
    /\ calls[2] # calls[1]
    /\ monitor.history = calls
    /\ Unwrap(delivered).history = <<calls[1]>>
    /\ Unwrap(delivered).heart_rate = calls[1]

---------------------------------------------------------------------------
(* C15: failing to acquire the store lock because it is poisoned is       *)
(* fatal and never retried: the task that fails stops for good, without   *)
(* applying the update (writer) or building a snapshot (reader), and the  *)
(* store is not modified by the attempt.                                  *)

C15_WriterFails == poisoned /\ pc_ingest = "lock" /\ pc_ingest' # "lock"

C15_ReaderFails == poisoned /\ pc_server = "lock" /\ pc_server' # "lock"

C15_PoisonedLockIsFatal ==
    [][/\ C15_WriterFails =>
             /\ pc_ingest' = "panicked"
             /\ monitor' = monitor /\ committed' = committed
             /\ calls' = calls /\ lock' = lock
       /\ C15_ReaderFails =>
             /\ pc_server' = "panicked"
             /\ monitor' = monitor /\ lock' = lock
             /\ update' = update /\ delivered' = delivered
       /\ pc_ingest = "panicked" =>
             pc_ingest' = "panicked" /\ monitor' = monitor /\ calls' = calls
       /\ pc_server = "panicked" =>
             pc_server' = "panicked" /\ update' = update
                                     /\ delivered' = delivered]_vars

C15_Witness ==
    /\ poisoned
    /\ pc_ingest = "panicked"
    /\ outcome # "panic"
    /\ IsSome(cb)
    /\ Len(calls) = 1
    /\ Unwrap(cb).rate # calls[1]
    /\ monitor = committed
    /\ monitor.current_rate = calls[1]
    /\ monitor.history = calls

---------------------------------------------------------------------------
(* C16: a failure in the serving layer while answering a request (the     *)
(* response cannot be sent) does not affect the ingestion path: every     *)
(* record accepted after that failure is still applied to the store by    *)
(* update().                                                              *)

C16_IngestionSurvivesServingFailure ==
    [][(late /\ pc_ingest = "lock" /\ pc_ingest' # "lock") =>
            pc_ingest' = "upd_fields"]_vars

---------------------------------------------------------------------------
(* C17: within every snapshot built by create_heart_rate_update the three *)
(* freshness fields agree, whatever time passes between the clock reads:  *)
(* status is the live text iff status_color is green iff elapsed_secs is  *)
(* below 10, and status is the lost text iff status_color is red iff      *)
(* elapsed_secs is 10 or more.                                            *)

C17_FreshnessFieldsAgree ==
    IsSome(update) =>
        LET u == Unwrap(update)
        IN  /\ u.status \in {StatusLive, StatusLost}
            /\ u.status_color \in {ColorLive, ColorLost}
            /\ u.status = StatusLive <=> u.status_color = ColorLive
            /\ u.status_color = ColorLive <=> u.elapsed_secs < 10

---------------------------------------------------------------------------
(* C18: whenever the lock is free, and in every snapshot: if history is   *)
(* empty then no update has been accepted and the value is 0, the device  *)
(* name is the placeholder and the signal strength is i16::MIN; if        *)
(* history is non-empty then the current value is the last (newest)       *)
(* element of history.                                                    *)

C18_Pristine(rate, name, rssi) ==
    rate = 0 /\ name = "waiting for connection..." /\ rssi = -32768

C18_Shape(rate, name, rssi, history) ==
    IF history = <<>>
    THEN C18_Pristine(rate, name, rssi)
    ELSE rate = history[Len(history)]

C18_SnapshotShape(s) ==
    IsSome(s) => LET u == Unwrap(s)
                 IN  C18_Shape(u.heart_rate, u.device_name, u.rssi, u.history)

C18_EmptyOrNewestLast ==
    /\ lock = "free" =>
          /\ C18_Shape(monitor.current_rate, monitor.device_name,
                       monitor.rssi, monitor.history)
          /\ monitor.history = <<>> => calls = <<>>
    /\ C18_SnapshotShape(update)
    /\ C18_SnapshotShape(delivered)

C18_Witness ==
    /\ lock = "free"
    /\ Len(monitor.history) = 2
    /\ monitor.history[1] # monitor.history[2]
    /\ monitor.current_rate = monitor.history[2]
    /\ IsSome(delivered)
    /\ Unwrap(delivered).history = <<>>
    /\ Unwrap(delivered).heart_rate = 0
    /\ Unwrap(delivered).rssi = I16Min

---------------------------------------------------------------------------
(* C19: the byte 0xFF gets no special treatment: an otherwise acceptable  *)
(* record whose payload[3] is 0xFF is accepted like any other; update()   *)
(* sets the current value to 255, refreshes the last-update time and      *)
(* appends 255 to history.  (Like any other reading, it reaches update() *)
(* unless the Mutex is poisoned.)                                         *)

C19_Case(r) ==
    /\ r.manufacturer_data # None
    /\ Unwrap(r.manufacturer_data).company_id = 343
    /\ r.name = Some("Mi Smart Band 4")
    /\ Len(Unwrap(r.manufacturer_data).data) > 3
    /\ Unwrap(r.manufacturer_data).data[4] = 255

====
